---- MODULE Spec2Model ----
(***************************************************************************)
(* A model of archivator.cpp: the flat archive container, its writer       *)
(* (archiveFiles), its extractor (unarchiveFiles), the equivalence check   *)
(* (checkArchive) and the command line (main).                             *)
(*                                                                         *)
(* Bytes are natural numbers.  A file's content is a sequence of bytes, a  *)
(* file name a non-empty sequence of non-zero bytes.  The file system is   *)
(* the source folder (dir), the archive file (arch) and the output folder  *)
(* (out).                                                                  *)
(***************************************************************************)
EXTENDS Integers, Sequences, FiniteSets, TLC

VARIABLES dir, arch, out, obs, lp

vars == <<dir, arch, out, obs, lp>>

(***************************************************************************)
(* Bounds of the model.                                                    *)
(***************************************************************************)
MaxFiles == 2
MaxLen == 2
MaxRuns == 2
MaxChanges == 1
MaxRecords == 2
MaxBody == 1
SizeCap == 16777216

(***************************************************************************)
(* Program constants.                                                      *)
(***************************************************************************)
NUL == 0
SizeWidth == 8
UsageExit == 1
MinArgc == 4

\* Exit status of a process ended by std::terminate (SIGABRT), as a shell sees it.
AbortExit == 128 + 6

FileNames == {<<1>>, <<2>>}
ContentBytes == {0, 1}

RECURSIVE SeqsUpTo(_, _)
SeqsUpTo(S, n) ==
  IF n = 0 THEN {<<>>}
  ELSE LET shorter == SeqsUpTo(S, n - 1)
       IN  shorter \cup {Append(s, b) : s \in {t \in shorter : Len(t) = n - 1}, b \in S}

Contents == SeqsUpTo(ContentBytes, MaxLen)

(***************************************************************************)
(* struct FileInfo, as the directory scan fills it.  sub tells whether the *)
(* file lies in a subdirectory of the folder: its path differs, its        *)
(* filename() does not.                                                    *)
(***************************************************************************)
SubContents == {<<1>>}

FileInfo ==
  [name : FileNames, sub : {FALSE}, content : Contents]
    \cup [name : FileNames, sub : {TRUE}, content : SubContents]

PathOf(f) == <<f.sub, f.name>>

\* A folder is the sequence of its regular files in directory-iteration order.
IsFolder(d) ==
  /\ Len(d) <= MaxFiles
  /\ \A i, j \in 1..Len(d) : i # j => PathOf(d[i]) # PathOf(d[j])

Folders == {d \in UNION {[1..n -> FileInfo] : n \in 0..MaxFiles} : IsFolder(d)}

(***************************************************************************)
(* The size field: sizeof(std::uintmax_t) bytes of the native (little      *)
(* endian) representation.                                                 *)
(***************************************************************************)
RECURSIVE SizeBytes(_, _)
SizeBytes(n, k) ==
  IF k = 0 THEN <<>> ELSE <<n % 256>> \o SizeBytes(n \div 256, k - 1)

\* The value of a size field; values of SizeCap and more are reported as SizeCap.
RECURSIVE SizeValue(_)
SizeValue(b) ==
  IF b = <<>> THEN 0
  ELSE LET r == SizeValue(Tail(b))
       IN  IF r >= SizeCap \div 256 THEN SizeCap ELSE Head(b) + 256 * r

(***************************************************************************)
(* std::ifstream over the bytes of a file: the read position and the       *)
(* eofbit and failbit of the stream.                                       *)
(***************************************************************************)
OpenIn == [pos |-> 0, eof |-> FALSE, fail |-> FALSE]

Good(s) == ~s.eof /\ ~s.fail

\* The positions after s.pos that hold the delimiter.
Delims(bytes, s) == {i \in (s.pos + 1)..Len(bytes) : bytes[i] = NUL}

\* std::getline(stream, name, '\0') into an empty string: the characters up to
\* the delimiter, which is extracted and dropped; at the end of the stream eofbit,
\* and failbit when nothing at all was extracted.
GetLine(bytes, s) ==
  IF ~Good(s) THEN [s |-> [s EXCEPT !.fail = TRUE], name |-> <<>>]
  ELSE IF Delims(bytes, s) # {}
  THEN LET d == CHOOSE i \in Delims(bytes, s) : \A j \in Delims(bytes, s) : i <= j
       IN  [s |-> [s EXCEPT !.pos = d], name |-> SubSeq(bytes, s.pos + 1, d - 1)]
  ELSE [s    |-> [pos |-> Len(bytes), eof |-> TRUE, fail |-> s.pos = Len(bytes)],
        name |-> SubSeq(bytes, s.pos + 1, Len(bytes))]

\* stream.read(buffer, n): n bytes, or the bytes that are left with eofbit and
\* failbit; nothing on a stream that is not good.
StreamRead(bytes, s, n) ==
  IF ~Good(s) THEN [s |-> [s EXCEPT !.fail = TRUE], got |-> <<>>]
  ELSE IF n <= Len(bytes) - s.pos
  THEN [s |-> [s EXCEPT !.pos = s.pos + n], got |-> SubSeq(bytes, s.pos + 1, s.pos + n)]
  ELSE [s   |-> [pos |-> Len(bytes), eof |-> TRUE, fail |-> TRUE],
        got |-> SubSeq(bytes, s.pos + 1, Len(bytes))]

(***************************************************************************)
(* What the language leaves undefined, as choices of the run: the value of *)
(* a size that was never (or only partly) read, whether strcmp finds its   *)
(* two buffers equal when it runs past the bytes that were read into them, *)
(* and whether new char[n] of a huge n throws std::bad_alloc.              *)
(***************************************************************************)
Indeterminate ==
  {[size |-> 0, cmp |-> TRUE, alloc |-> TRUE],
   [size |-> 1, cmp |-> FALSE, alloc |-> FALSE],
   [size |-> SizeCap, cmp |-> TRUE, alloc |-> FALSE],
   [size |-> SizeCap, cmp |-> FALSE, alloc |-> TRUE]}

\* The size field of a record: indeterminate unless all its bytes were read.
ReadSize(bytes, s, ub) ==
  LET r == StreamRead(bytes, s, SizeWidth)
  IN  [s    |-> r.s,
       size |-> IF Len(r.got) = SizeWidth THEN SizeValue(r.got) ELSE ub.size,
       read |-> Len(r.got) = SizeWidth]

(***************************************************************************)
(* The output folder: a set of files [name, data, pad], one per name; pad  *)
(* counts the bytes after data that were written from memory nothing was   *)
(* read into.                                                              *)
(***************************************************************************)
PutFile(folder, name, data, pad) ==
  {f \in folder : f.name # name} \cup {[name |-> name, data |-> data, pad |-> pad]}

(***************************************************************************)
(* unarchiveFiles.  The loop's state u: the archive stream, the target     *)
(* folder, the FileInfo of the pass, and in status the statement that is   *)
(* next: "name" (the loop's head and getline), "size", "open", "copy", or  *)
(* "done" and "abort" when the loop is left.  denied holds the names whose *)
(* files cannot be opened.                                                 *)
(***************************************************************************)
UnarchiveBegin(folder) ==
  [s |-> OpenIn, out |-> folder, status |-> "name", name |-> <<>>, size |-> 0,
   sizeRead |-> FALSE, skipped |-> FALSE, trunc |-> FALSE]

\* while (!archive.eof()), as the end of a pass meets it
LoopHead(s) == IF s.eof THEN "done" ELSE "name"

\* The loop without its check of the name.
EndOfHeaderUnchecked(name) == FALSE

\* if (fileInfo.filename.empty()) break;
EndOfHeader(name) == name = <<>>

\* std::getline(archive, fileInfo.filename, '\0') and the check of the name
UnarchiveName(bytes, u) ==
  LET g == GetLine(bytes, u.s)
  IN  [u EXCEPT !.s = g.s, !.name = g.name, !.skipped = FALSE,
                !.status = IF EndOfHeader(g.name) THEN "done" ELSE "size"]

\* archive.read(&fileInfo.size, sizeof(std::uintmax_t))
UnarchiveSize(bytes, u, ub) ==
  LET h == ReadSize(bytes, u.s, ub)
  IN  [u EXCEPT !.s = h.s, !.size = h.size, !.sizeRead = h.read, !.status = "open"]

\* std::ofstream outputFile(...): the file is made, or emptied; on failure the
\* pass is over, with the content of the record unread.
UnarchiveCreate(u, denied) ==
  IF u.name \in denied
  THEN [u EXCEPT !.skipped = TRUE, !.status = LoopHead(u.s)]
  ELSE [u EXCEPT !.out = PutFile(u.out, u.name, <<>>, 0), !.status = "copy"]

\* new char[size], archive.read(buffer, size), outputFile.write(buffer, size)
UnarchiveCopy(bytes, u, ub) ==
  IF u.size >= SizeCap /\ ~ub.alloc THEN [u EXCEPT !.status = "abort"]
  ELSE LET c == StreamRead(bytes, u.s, u.size)
       IN  [u EXCEPT !.s = c.s,
                     !.trunc = u.trunc \/ (u.sizeRead /\ Len(c.got) < u.size),
                     !.out = PutFile(u.out, u.name, c.got, u.size - Len(c.got)),
                     !.status = LoopHead(c.s)]

\* The statement that is next.
UnarchiveStmt(bytes, u, denied, ub) ==
  CASE u.status = "name" -> UnarchiveName(bytes, u)
    [] u.status = "size" -> UnarchiveSize(bytes, u, ub)
    [] u.status = "open" -> UnarchiveCreate(u, denied)
    [] u.status = "copy" -> UnarchiveCopy(bytes, u, ub)

RECURSIVE UnarchiveLoop(_, _, _, _)
UnarchiveLoop(bytes, u, denied, ub) ==
  IF u.status \in {"done", "abort"} THEN u
  ELSE UnarchiveLoop(bytes, UnarchiveStmt(bytes, u, denied, ub), denied, ub)

(***************************************************************************)
(* checkArchive.  strcmp on the two buffers: a and f are the bytes that    *)
(* were read into them.  It stops at the first difference or at a zero     *)
(* byte in both; past the bytes read its answer is indeterminate.          *)
(***************************************************************************)
RECURSIVE StrCmpFrom(_, _, _, _)
StrCmpFrom(a, f, i, ub) ==
  IF i > Len(a) \/ i > Len(f) THEN ub.cmp
  ELSE IF a[i] # f[i] THEN FALSE
  ELSE IF a[i] = NUL THEN TRUE
  ELSE StrCmpFrom(a, f, i + 1, ub)

\* strcmp(bufferArchive, bufferFile) == 0
StrCmpEqual(a, f, ub) == StrCmpFrom(a, f, 1, ub)

\* The file at folderPath + "/" + name: a file of the folder itself.
Lookup(folder, name) == {i \in 1..Len(folder) : folder[i].name = name /\ ~folder[i].sub}

\* The loop's state v: the archive stream, the number of records in
\* archivedFiles, the FileInfo of the pass, and in status the statement that is
\* next: "name", "size", "lookup", "compare", "count" (after the loop), or what
\* checkArchive ends with: "true", "false", or "abort" for an exception nothing
\* catches.
VerifyBegin == [s |-> OpenIn, nrecs |-> 0, name |-> <<>>, size |-> 0, status |-> "name"]

VerifyName(bytes, v) ==
  LET g == GetLine(bytes, v.s)
  IN  [v EXCEPT !.s = g.s, !.name = g.name,
                !.status = IF EndOfHeader(g.name) THEN "count" ELSE "size"]

\* The size is read and the FileInfo pushed to archivedFiles.
VerifySize(bytes, v, ub) ==
  LET h == ReadSize(bytes, v.s, ub)
  IN  [v EXCEPT !.s = h.s, !.size = h.size, !.nrecs = v.nrecs + 1, !.status = "lookup"]

\* if (!fs::exists(folderFilePath) || fs::file_size(folderFilePath) != size)
\* exists tells whether folderPath is a directory at all.
VerifyLookup(v, folder, exists) ==
  LET hit == IF exists THEN Lookup(folder, v.name) ELSE {}
  IN  IF hit = {} \/ \A i \in hit : Len(folder[i].content) # v.size
      THEN [v EXCEPT !.status = "false"]
      ELSE [v EXCEPT !.status = "compare"]

\* The two buffers are filled and compared.  A folder file that could not be
\* opened leaves its buffer as it was.
VerifyCompare(bytes, v, folder, denied, ub) ==
  LET file == folder[CHOOSE i \in Lookup(folder, v.name) : TRUE]
      a == StreamRead(bytes, v.s, v.size)
      f == IF v.name \in denied THEN <<>> ELSE file.content
  IN  [v EXCEPT !.s = a.s,
                !.status = IF ~StrCmpEqual(a.got, f, ub) THEN "false"
                           ELSE IF a.s.eof THEN "count" ELSE "name"]

\* After the loop: the regular files under folderPath are counted.  The
\* directory iterator throws when folderPath is no directory.
VerifyCount(v, folder, exists) ==
  [v EXCEPT !.status = IF ~exists THEN "abort"
                       ELSE IF Len(folder) # v.nrecs THEN "false"
                       ELSE "true"]

\* The statement that is next.
VerifyStmt(bytes, v, folder, exists, denied, ub) ==
  CASE v.status = "name" -> VerifyName(bytes, v)
    [] v.status = "size" -> VerifySize(bytes, v, ub)
    [] v.status = "lookup" -> VerifyLookup(v, folder, exists)
    [] v.status = "compare" -> VerifyCompare(bytes, v, folder, denied, ub)
    [] v.status = "count" -> VerifyCount(v, folder, exists)

RECURSIVE VerifyLoop(_, _, _, _, _, _)
VerifyLoop(bytes, v, folder, exists, denied, ub) ==
  IF v.status \in {"true", "false", "abort"} THEN v
  ELSE VerifyLoop(bytes, VerifyStmt(bytes, v, folder, exists, denied, ub),
                  folder, exists, denied, ub)

\* checkArchive(archiveName, folderPath): "true", "false", or "abort" when it
\* ends the process.
CheckArchive(a, folder, exists, denied, ub) ==
  IF ~a.exists THEN "false"
  ELSE VerifyLoop(a.bytes, VerifyBegin, folder, exists, denied, ub).status

(***************************************************************************)
(* archiveFiles.  std::ofstream: the bytes written and the failbit.        *)
(***************************************************************************)
OpenOut == [bytes |-> <<>>, fail |-> FALSE]

\* archive << text, archive.write(text): nothing once the stream has failed.
Put(o, text) == IF o.fail THEN o ELSE [o EXCEPT !.bytes = o.bytes \o text]

\* archive << inputFile.rdbuf(): sets failbit when no character was inserted.
PutBuf(o, content) ==
  IF o.fail THEN o
  ELSE IF content = <<>> THEN [o EXCEPT !.fail = TRUE]
  ELSE [o EXCEPT !.bytes = o.bytes \o content]

\* One pass of the loop that writes the records.
WriteRecord(o, f, denied) ==
  LET hdr == Put(Put(o, f.name \o <<NUL>>), SizeBytes(Len(f.content), SizeWidth))
  IN  IF f.name \in denied THEN hdr ELSE PutBuf(hdr, f.content)

RECURSIVE WriteRecords(_, _, _)
WriteRecords(o, files, denied) ==
  IF files = <<>> THEN o
  ELSE WriteRecords(WriteRecord(o, Head(files), denied), Tail(files), denied)

\* archiveFiles(folderPath, archiveName): the archive file it leaves, what
\* checkArchive said, whether the archive was opened for writing, and the
\* process's fate ("return" or "abort").  writable tells whether the archive can
\* be opened for writing.
ArchiveFiles(a, folder, exists, writable, denied, ub) ==
  LET chk == CheckArchive(a, folder, exists, denied, ub)
  IN  IF chk = "abort" THEN [arch |-> a, chk |-> chk, wrote |-> FALSE, end |-> "abort"]
      ELSE IF chk = "true" THEN [arch |-> a, chk |-> chk, wrote |-> FALSE, end |-> "return"]
      ELSE IF ~writable THEN [arch |-> a, chk |-> chk, wrote |-> FALSE, end |-> "return"]
      ELSE IF ~exists
      THEN [arch |-> [exists |-> TRUE, bytes |-> <<>>], chk |-> chk, wrote |-> TRUE,
            end |-> "abort"]
      ELSE [arch  |-> [exists |-> TRUE,
                       bytes  |-> WriteRecords(OpenOut, folder, denied).bytes],
            chk   |-> chk, wrote |-> TRUE, end |-> "return"]

\* unarchiveFiles(archiveName, targetFolder): the target folder it leaves and the
\* process's fate.
UnarchiveFiles(a, target, denied, ub) ==
  IF ~a.exists THEN [out |-> target, end |-> "return", opened |-> FALSE, trunc |-> FALSE]
  ELSE LET u == UnarchiveLoop(a.bytes, UnarchiveBegin(target), denied, ub)
       IN  [out |-> u.out, end |-> IF u.status = "abort" THEN "abort" ELSE "return",
            opened |-> TRUE, trunc |-> u.trunc]

(***************************************************************************)
(* main: the exit status of a run.  end is the fate of the handler that    *)
(* was called, "abort" when an uncaught exception ended the process.       *)
(***************************************************************************)
Modes == {"-a", "-u", "-x"}

MainExit(argc, mode, end) ==
  IF argc < MinArgc THEN UsageExit
  ELSE IF mode \in {"-a", "-u"} THEN (IF end = "abort" THEN AbortExit ELSE 0)
  ELSE UsageExit

(***************************************************************************)
(* The state: the source folder, the archive file, the output folder, and  *)
(* a record of the last run and of what happened to the folder since a run *)
(* in which every open succeeded last brought the archive up to date       *)
(* (obs).  lp is the position of a handler that is run one statement at a  *)
(* time (SpecDecode only).                                                 *)
(***************************************************************************)
NoArchive == [exists |-> FALSE, bytes |-> <<>>]

NoRun == [last |-> "init", exit |-> 0, argc |-> 0, mode |-> "",
          runs |-> 0, changes |-> 0, sync |-> "none", syncBefore |-> "none",
          chk |-> "none", wrote |-> FALSE, before |-> NoArchive, exists |-> TRUE,
          writable |-> TRUE, denied |-> {}, cmp |-> TRUE,
          udenied |-> {}, intoEmpty |-> FALSE, opened |-> FALSE, trunc |-> FALSE]

Idle == [pc |-> "idle"]

Init ==
  /\ dir \in Folders
  /\ arch = NoArchive
  /\ out = {}
  /\ obs = NoRun
  /\ lp = Idle

\* What a run of -a finds: whether the folder is a directory, whether the archive
\* can be opened for writing, which files cannot be opened.
ArchiveEnvs ==
  [exists : {TRUE}, writable : {TRUE}, denied : SUBSET FileNames,
   ub : {x \in Indeterminate : x.alloc}]
    \cup [exists : BOOLEAN, writable : BOOLEAN, denied : {{}},
          ub : {CHOOSE x \in Indeterminate : x.cmp}]

\* <program> -a <folder> <archive>
RunArchive ==
  /\ obs.runs < MaxRuns
  /\ \E e \in ArchiveEnvs :
       LET exists == e.exists
           writable == e.writable
           denied == e.denied
           r == ArchiveFiles(arch, dir, exists, writable, denied, e.ub)
       IN  /\ arch' = r.arch
           /\ obs' = [obs EXCEPT !.last = "archive",
                                 !.argc = MinArgc, !.mode = "-a",
                                 !.exit = MainExit(MinArgc, "-a", r.end),
                                 !.runs = obs.runs + 1,
                                 !.syncBefore = obs.sync,
                                 !.sync = IF /\ r.end = "return"
                                             /\ r.wrote \/ r.chk = "true"
                                             /\ denied = {}
                                          THEN "fresh" ELSE "stale",
                                 !.chk = r.chk, !.wrote = r.wrote, !.before = arch,
                                 !.exists = exists, !.writable = writable,
                                 !.denied = denied,
                                 !.cmp = arch.exists => e.ub.cmp]
  /\ UNCHANGED <<dir, out, lp>>

\* <program> -u <archive> <folder>, into the output folder or into a new one
RunUnarchive ==
  /\ obs.runs < MaxRuns
  /\ \E fresh \in BOOLEAN, denied \in SUBSET FileNames, ub \in Indeterminate :
       LET r == UnarchiveFiles(arch, IF fresh THEN {} ELSE out, denied, ub)
       IN  /\ out' = r.out
           /\ obs' = [obs EXCEPT !.last = "unarchive",
                                 !.argc = MinArgc, !.mode = "-u",
                                 !.exit = MainExit(MinArgc, "-u", r.end),
                                 !.runs = obs.runs + 1,
                                 !.udenied = denied, !.intoEmpty = fresh \/ out = {},
                                 !.opened = r.opened, !.trunc = r.trunc]
  /\ UNCHANGED <<dir, arch, lp>>

\* A run with too few arguments or with a mode that is neither -a nor -u.
RunUsage ==
  /\ obs.runs < MaxRuns
  /\ \E argc \in {MinArgc - 1, MinArgc}, mode \in Modes :
       /\ argc < MinArgc \/ mode \notin {"-a", "-u"}
       /\ obs' = [obs EXCEPT !.last = "usage",
                             !.argc = argc, !.mode = mode,
                             !.exit = MainExit(argc, mode, "return"),
                             !.runs = obs.runs + 1]
  /\ UNCHANGED <<dir, arch, out, lp>>

(***************************************************************************)
(* The folder's owner between runs: a change to the folder after a run    *)
(* that brought the archive up to date.                                    *)
(***************************************************************************)
Changed(kind) ==
  [obs EXCEPT !.last = kind, !.changes = obs.changes + 1,
              !.sync = IF obs.sync = "fresh" THEN kind ELSE "stale"]

InsertAt(s, p, x) == SubSeq(s, 1, p - 1) \o <<x>> \o SubSeq(s, p, Len(s))

RemoveAt(s, p) == SubSeq(s, 1, p - 1) \o SubSeq(s, p + 1, Len(s))

AddFile ==
  /\ obs.changes < MaxChanges
  /\ obs.sync = "fresh"
  /\ \E f \in FileInfo, p \in 1..(Len(dir) + 1) :
       /\ IsFolder(InsertAt(dir, p, f))
       /\ dir' = InsertAt(dir, p, f)
  /\ obs' = Changed("added")
  /\ UNCHANGED <<arch, out, lp>>

RemoveFile ==
  /\ obs.changes < MaxChanges
  /\ obs.sync = "fresh"
  /\ \E p \in 1..Len(dir) : dir' = RemoveAt(dir, p)
  /\ obs' = Changed("removed")
  /\ UNCHANGED <<arch, out, lp>>

\* One byte of one file gets another value; every file keeps its size.
ModifyByte ==
  /\ obs.changes < MaxChanges
  /\ obs.sync = "fresh"
  /\ \E p \in 1..Len(dir) :
       \E i \in 1..Len(dir[p].content), b \in ContentBytes :
         /\ b # dir[p].content[i]
         /\ dir' = [dir EXCEPT ![p].content[i] = b]
  /\ obs' = Changed("modified")
  /\ UNCHANGED <<arch, out, lp>>

Next ==
  \/ RunArchive
  \/ RunUnarchive
  \/ RunUsage
  \/ AddFile
  \/ RemoveFile
  \/ ModifyByte

Spec == Init /\ [][Next]_vars

(***************************************************************************)
(* The two record loops, one statement at a time, over archive files of    *)
(* any shape: every prefix of a sequence of records, so that a name, a     *)
(* size field or a content may be cut short.                               *)
(***************************************************************************)
DecodeNames == {<<1>>}

DecodeContents == SeqsUpTo(ContentBytes, MaxBody)

EncodeRecord(r) == r.name \o <<NUL>> \o SizeBytes(Len(r.content), SizeWidth) \o r.content

RECURSIVE EncodeRecords(_)
EncodeRecords(rs) ==
  IF rs = <<>> THEN <<>> ELSE EncodeRecord(Head(rs)) \o EncodeRecords(Tail(rs))

RecordLists ==
  UNION {[1..n -> [name : DecodeNames, content : DecodeContents]] : n \in 0..MaxRecords}

Prefixes(s) == {SubSeq(s, 1, k) : k \in 0..Len(s)}

Streams == UNION {Prefixes(EncodeRecords(rs)) : rs \in RecordLists}

DecodeFolders ==
  {<<>>} \cup {<<[name |-> n, sub |-> FALSE, content |-> c]>> :
                 n \in DecodeNames, c \in DecodeContents}

InitDecode ==
  /\ dir = <<>>
  /\ arch \in {NoArchive} \cup [exists : {TRUE}, bytes : Streams]
  /\ out = {}
  /\ obs = NoRun
  /\ lp = Idle

\* unarchiveFiles up to its loop: the archive is opened, the target folder made.
UnarchiveOpen ==
  /\ lp.pc = "idle"
  /\ lp' = IF arch.exists
           THEN [pc |-> "run", kind |-> "unarchive", u |-> UnarchiveBegin(out)]
           ELSE [pc |-> "done", kind |-> "unarchive",
                 u |-> [UnarchiveBegin(out) EXCEPT !.status = "done"]]
  /\ UNCHANGED <<dir, arch, out, obs>>

\* The next statement of the loop of unarchiveFiles.
UnarchiveNext ==
  /\ lp.pc = "run"
  /\ lp.kind = "unarchive"
  /\ \E denied \in SUBSET DecodeNames, ub \in Indeterminate :
       LET u == UnarchiveStmt(arch.bytes, lp.u, denied, ub)
       IN  /\ lp' = [lp EXCEPT !.u = u,
                               !.pc = IF u.status \in {"done", "abort"} THEN "done"
                                      ELSE "run"]
           /\ out' = u.out
  /\ UNCHANGED <<dir, arch, obs>>

\* checkArchive up to its loop, against some folder.
VerifyOpen ==
  /\ lp.pc = "idle"
  /\ \E folder \in DecodeFolders, exists \in BOOLEAN :
       /\ dir' = folder
       /\ lp' = IF arch.exists
                THEN [pc |-> "run", kind |-> "verify", v |-> VerifyBegin,
                      exists |-> exists]
                ELSE [pc |-> "done", kind |-> "verify",
                      v |-> [VerifyBegin EXCEPT !.status = "false"], exists |-> exists]
  /\ UNCHANGED <<arch, out, obs>>

\* The next statement of checkArchive.
VerifyNext ==
  /\ lp.pc = "run"
  /\ lp.kind = "verify"
  /\ \E denied \in SUBSET DecodeNames, ub \in Indeterminate :
       LET v == VerifyStmt(arch.bytes, lp.v, dir, lp.exists, denied, ub)
       IN  lp' = [lp EXCEPT !.v = v,
                            !.pc = IF v.status \in {"true", "false", "abort"}
                                   THEN "done" ELSE "run"]
  /\ UNCHANGED <<dir, arch, out, obs>>

NextDecode ==
  \/ UnarchiveOpen
  \/ UnarchiveNext
  \/ VerifyOpen
  \/ VerifyNext

\* The program is one thread that runs on until it returns or is aborted.
SpecDecode == InitDecode /\ [][NextDecode]_vars /\ WF_vars(NextDecode)

(***************************************************************************)
(* The properties.                                                         *)
(***************************************************************************)

\* The files of a folder as an extraction that is true to them leaves them.
FilesOf(d) == {[name |-> d[i].name, data |-> d[i].content, pad |-> 0] : i \in 1..Len(d)}

\* Every file lies in the folder itself, none in a subdirectory.
NoSub(d) == \A i \in 1..Len(d) : ~d[i].sub

\* The last run was an extraction, into an empty folder, of the archive that a run
\* of -a had just brought up to date from the folder as it is now; every open of
\* both runs succeeded.
Extracted ==
  /\ obs.last = "unarchive"
  /\ obs.sync = "fresh"
  /\ obs.opened
  /\ obs.intoEmpty
  /\ obs.udenied = {}

\* C1: archiving a folder and extracting the archive into an empty folder leaves
\* there files with the names, sizes and contents of the folder's files, and no
\* others.  Stated for folders without subdirectories and runs without open
\* failures.
C1_RoundTrip == (Extracted /\ NoSub(dir)) => out = FilesOf(dir)

\* The last run was a second run of -a on a folder that had not changed since the
\* run before brought the archive up to date; every open succeeded, and strcmp
\* found buffers it ran past equal.
ArchivedAgain ==
  /\ obs.last = "archive"
  /\ obs.syncBefore = "fresh"
  /\ obs.exists
  /\ obs.writable
  /\ obs.denied = {}
  /\ obs.cmp

\* C2: the second of two runs of -a on an unchanged folder finds the archive
\* equivalent, does not open it for writing and leaves it byte-identical.
C2_Idempotent ==
  (ArchivedAgain /\ NoSub(dir)) =>
    (obs.chk = "true" /\ ~obs.wrote /\ arch = obs.before)

\* checkArchive never answers true, whatever is left undefined.
NeverEquivalent ==
  \A ub \in Indeterminate : CheckArchive(arch, dir, TRUE, {}, ub) # "true"

\* C3: after the archive was brought up to date, a change of one byte of one file
\* that keeps every size makes checkArchive answer false, at every position of the
\* byte, and makes the next run of -a write the archive again.
C3_ByteChangeDetected ==
  /\ (obs.sync = "modified" /\ NoSub(dir)) => NeverEquivalent
  /\ (obs.last = "archive" /\ obs.syncBefore = "modified" /\ NoSub(dir)
        /\ obs.exists /\ obs.writable /\ obs.denied = {}) => obs.wrote

\* The records of an archive as the container format defines them: a name up to
\* its terminator, a size field, that many content bytes; an empty name, or a
\* record that is cut short, ends them.
RECURSIVE FormatRecords(_, _)
FormatRecords(bytes, pos) ==
  LET ends == {i \in (pos + 1)..Len(bytes) : bytes[i] = NUL}
  IN  IF ends = {} THEN <<>>
      ELSE LET d == CHOOSE i \in ends : \A j \in ends : i <= j
           IN  IF d = pos + 1 \/ d + SizeWidth > Len(bytes) THEN <<>>
               ELSE LET size == SizeValue(SubSeq(bytes, d + 1, d + SizeWidth))
                        body == d + SizeWidth
                    IN  IF body + size > Len(bytes) THEN <<>>
                        ELSE <<[name    |-> SubSeq(bytes, pos + 1, d - 1),
                                content |-> SubSeq(bytes, body + 1, body + size)]>>
                               \o FormatRecords(bytes, body + size)

\* Some record names no file of the folder, or a file of another size.
RecordMismatch(rs, d) ==
  \E k \in 1..Len(rs) :
    \A i \in Lookup(d, rs[k].name) : Len(d[i].content) # Len(rs[k].content)

\* C4: checkArchive answers false when a record of the archive names a file that
\* is missing or has another size, and when the folder holds another number of
\* files than the archive holds records; so it answers false after a file was
\* added to or removed from the folder the archive was brought up to date from.
C4_FileSetChangeDetected ==
  /\ (arch.exists /\ RecordMismatch(FormatRecords(arch.bytes, 0), dir)) => NeverEquivalent
  /\ (arch.exists /\ arch.bytes = EncodeRecords(FormatRecords(arch.bytes, 0))
        /\ Len(FormatRecords(arch.bytes, 0)) # Len(dir)) => NeverEquivalent
  /\ (obs.sync \in {"added", "removed"} /\ NoSub(dir)) => NeverEquivalent

\* C5: an archive written by a run of -a is the concatenation, in scan order, of
\* one record per file of the folder: name, terminator, size field and exactly
\* that many content bytes; also when a file of the folder cannot be opened.
C5_ContainerFormat ==
  (obs.last = "archive" /\ obs.wrote /\ obs.exists) =>
    \E contents \in [1..Len(dir) -> Contents] :
      arch.bytes = EncodeRecords([i \in 1..Len(dir) |->
                                    [name |-> dir[i].name, content |-> contents[i]]])

\* C6: an extraction that meets a record whose declared size exceeds the bytes
\* left in the archive fails, and leaves no file holding bytes that are not the
\* archive's.
C6_TruncatedIsRefused ==
  (lp.pc = "done" /\ lp.kind = "unarchive" /\ lp.u.trunc) =>
    (lp.u.status # "done" /\ \A f \in out : f.pad = 0)

\* C7: a file that cannot be opened costs its own record only: the extraction of
\* a well-formed archive still leaves every other file of the folder with its own
\* name and content; and when the archive itself cannot be opened nothing is
\* written.
C7_SkipOnlyOffending ==
  /\ (obs.last = "unarchive" /\ obs.sync = "fresh" /\ obs.opened /\ obs.intoEmpty
        /\ NoSub(dir) /\ arch.bytes = EncodeRecords(dir)) =>
       \A f \in FilesOf(dir) : f.name \notin obs.udenied => f \in out
  /\ (obs.last = "unarchive" /\ ~obs.opened /\ obs.intoEmpty) => out = {}
  /\ (obs.last = "archive" /\ ~obs.writable) => arch = obs.before

\* C8: a run exits with 1 exactly when fewer than three arguments follow the
\* program name or the mode is neither -a nor -u, and with 0 otherwise, whatever
\* fails inside the run.
C8_ExitCode ==
  obs.runs > 0 =>
    /\ obs.exit = 1 <=> (obs.argc < 4 \/ obs.mode \notin {"-a", "-u"})
    /\ obs.exit # 1 => obs.exit = 0

\* C9: when checkArchive answers false and the folder is no directory, a run of
\* -a leaves an archive that was there byte-identical: the scan comes before the
\* archive is opened.
C9_ScanBeforeWrite ==
  (obs.last = "archive" /\ obs.chk = "false" /\ ~obs.exists /\ obs.before.exists) =>
    arch = obs.before

\* The archive is never read backwards, and the statement that opens a pass (the
\* read of the name) reads on in the archive, or reads an empty name and leaves
\* the loop with nothing else done.
PassProgress ==
  /\ (lp.pc = "run" /\ lp.kind = "unarchive") =>
       /\ lp'.u.s.pos >= lp.u.s.pos
       /\ lp.u.status = "name" =>
            \/ lp'.u.s.pos > lp.u.s.pos
            \/ lp'.u.name = <<>> /\ lp'.pc = "done" /\ out' = out
  /\ (lp.pc = "run" /\ lp.kind = "verify") =>
       /\ lp'.v.s.pos >= lp.v.s.pos
       /\ lp.v.status = "name" =>
            \/ lp'.v.s.pos > lp.v.s.pos
            \/ lp'.v.name = <<>> /\ lp'.v.status = "count" /\ lp'.v.nrecs = lp.v.nrecs

\* C10: over every archive, well-formed or cut short, the record loops of
\* unarchiveFiles and checkArchive end: each pass consumes at least one byte or
\* reads an empty name and stops.
C10_DecodeTerminates ==
  /\ [][PassProgress]_vars
  /\ (lp.pc = "run") ~> (lp.pc = "done")

\* A loop has ended on an archive that is cut short inside a content: the
\* extraction after writing what was left of it, or the check after it compared
\* what was left of it.
C10_Witness ==
  /\ lp.pc = "done"
  /\ \/ lp.kind = "unarchive" /\ lp.u.trunc /\ lp.u.s.eof /\ lp.u.status = "done"
     \/ lp.kind = "verify" /\ lp.v.s.fail /\ lp.v.nrecs > 0 /\ lp.v.status = "true"

====
